---- MODULE Spec2Model ----
(***************************************************************************)
(* Model of the Uniswap v3 swap bundler: the SwapBundler contract          *)
(* (contracts/SwapBundler.sol), the helpers of scripts/utils/              *)
(* swap-helpers.js and the orchestration script swap-with-bundler.js.      *)
(***************************************************************************)
EXTENDS Integers, Sequences, FiniteSets, TLC

(***************************************************************************)
(* Bounds of the model.                                                    *)
(***************************************************************************)
\* native value the submitter owns when the behaviour starts
MaxEth == 2
\* largest amount of output token that strangers send to the bundler
MaxTok == 2
\* longest batch handed to bundleSwaps
MaxLegs == 2
\* largest value of the unsigned integer type (2^256 - 1, scaled down)
UintMax == 15
\* the router's exchange rates: output = value * rate, rate in 1..MaxRate
MaxRate == 2

(***************************************************************************)
(* Addresses.                                                              *)
(***************************************************************************)
ZERO == "0x0"
WETH == "weth"
USDC == "usdc"
U1 == "user1"
U2 == "user2"
BUNDLER == "bundler"
ROUTER == "router"
POOL == "pool"

Users == {U1, U2}
Accounts == {U1, U2, BUNDLER, ROUTER}
Tokens == {USDC}

VARIABLES
    ethBal,     \* native balance of every account
    tokBal,     \* token -> holder -> balance
    last,       \* the transaction sent to the bundler and what it did
    pure,       \* a helper function under test: its arguments and its result
    cfg,        \* the environment read when the script is loaded
    run,        \* the orchestration run: where it stands and its locals
    trace       \* what the run has done: network calls, submissions, log lines

chainVars == <<ethBal, tokBal, last>>
scriptVars == <<pure, cfg, run, trace>>
runVars == <<cfg, run, trace>>
vars == <<ethBal, tokBal, last, pure, cfg, run, trace>>

(***************************************************************************)
(* Values of the scripts.  A bigint that may be null is [null, v]; the     *)
(* number parseInt returns is [nan, v]; what a function gives back is      *)
(* [throws, v].                                                            *)
(***************************************************************************)
Null == [null |-> TRUE, v |-> 0]
Big(n) == [null |-> FALSE, v |-> n]
NaN == [nan |-> TRUE, v |-> 0]
Num(n) == [nan |-> FALSE, v |-> n]
Returns(n) == [throws |-> FALSE, v |-> n]
Throws == [throws |-> TRUE, v |-> 0]

NoPure == [fn |-> "none", expectedOutput |-> Null, slippageBps |-> NaN,
           called |-> FALSE, ret |-> Throws]

\* a URL is the sequence of its fragments; "" is the empty sequence
NoUrl == << >>

NoCfg == [missing |-> "none", usePrivateRpc |-> FALSE, privateRpcUrl |-> NoUrl,
          slippageBps |-> NaN]

IdleRun ==
    [ pc |-> "idle", exitCode |-> -1, balance |-> 0,
      rpcUrl |-> NoUrl, network |-> "", chainId |-> 0,
      enforced |-> FALSE, refused |-> FALSE, enforceResult |-> FALSE,
      isPrivate |-> FALSE,
      quoted |-> FALSE, expectedOutput |-> Null, minAmountOut |-> 0,
      privateFailed |-> FALSE, standardFailed |-> FALSE, tx |-> "none",
      receipt |-> << >>, record |-> "unread" ]


(***************************************************************************)
(* Execution frames: the chain state a call works on, together with the    *)
(* side effects it has performed so far.                                   *)
(***************************************************************************)
Frame(eth, tok) ==
    [ status      |-> "ok",
      reason      |-> "",
      eth         |-> eth,
      tok         |-> tok,
      routerCalls |-> << >>,
      transfers   |-> << >>,
      results     |-> << >>,
      events      |-> << >>,
      remaining   |-> 0,
      refund      |-> 0,
      refunds     |-> 0,
      padding     |-> 0 ]

Revert(f, why) == [f EXCEPT !.status = "revert", !.reason = why]

MoveEth(eth, from, to, amount) ==
    IF from = to THEN eth
    ELSE [eth EXCEPT ![from] = @ - amount, ![to] = @ + amount]

MoveTok(tok, token, from, to, amount) ==
    IF from = to THEN tok
    ELSE [tok EXCEPT ![token][from] = @ - amount, ![token][to] = @ + amount]

(***************************************************************************)
(* The downstream router (contracts/SimpleSwapRouter.sol, a black box):    *)
(* exactInputSingleWithETH takes the value, wraps it, swaps and delivers   *)
(* the output to params.recipient, or reverts.  Its answer is an input:    *)
(* ans.failAt names the invocation that reverts (0: none), ans.rate the    *)
(* output per unit of value.                                               *)
(***************************************************************************)
RouterExactInputSingleWithETH(f, value, params, ans, idx) ==
    LET called == [f EXCEPT !.routerCalls =
                       Append(@, [value |-> value, params |-> params])]
        out == value * ans.rate
    IN  IF ans.failAt = idx THEN Revert(called, "router reverted")
        ELSE IF out > UintMax THEN Revert(called, "router reverted")
        ELSE IF out < params.amountOutMinimum
                THEN Revert(called, "Too little received")
        ELSE [called EXCEPT
                !.eth = MoveEth(@, BUNDLER, ROUTER, value),
                !.tok = IF params.tokenOut \in Tokens
                           THEN [@ EXCEPT ![params.tokenOut][params.recipient] = @ + out]
                           ELSE @,
                !.results = Append(@, out)]

(***************************************************************************)
(* SafeERC20.safeTransfer called by the bundler: moves the bundler's own   *)
(* tokens, reverting when it holds fewer than amount.                      *)
(***************************************************************************)
SafeTransfer(f, token, to, amount) ==
    IF f.tok[token][BUNDLER] < amount
       THEN Revert(f, "ERC20: transfer amount exceeds balance")
       ELSE [f EXCEPT
               !.tok = MoveTok(@, token, BUNDLER, to, amount),
               !.transfers = Append(@, [token |-> token, to |-> to, amount |-> amount])]

\* emit SwapBundled(msg.sender, tokenIn, tokenOut, amountIn, amountOut, bundleId);
\* bundleId hashes (block.timestamp, block.number, msg.sender, amountIn)
EmitSwapBundled(f, sender, params, amountOut) ==
    [f EXCEPT !.events = Append(@,
        [ user      |-> sender,
          tokenIn   |-> params.tokenIn,
          tokenOut  |-> params.tokenOut,
          amountIn  |-> params.amountIn,
          amountOut |-> amountOut,
          bundleId  |-> <<"block", sender, params.amountIn>> ])]

\* the frame a payable call starts in: msg.value has reached the bundler
Enter(eth, tok, sender, value) ==
    Frame(MoveEth(eth, sender, BUNDLER, value), tok)

(***************************************************************************)
(* bundleSwap(pool, weth, params), payable.                                *)
(***************************************************************************)
\* mutant: the router is handed the leg's amount, the rest stays behind
BundleSwapValue_AmountIn(value, params) ==
    IF params.amountIn < value THEN params.amountIn ELSE value

\* exactInputSingleWithETH{value: msg.value}(pool, weth, params)
BundleSwapValue(value, params) == value

BundleSwap(eth, tok, sender, value, weth, params, ans) ==
    LET f0 == Enter(eth, tok, sender, value)
    IN  IF ~(value > 0) THEN Revert(f0, "Must send ETH")
        ELSE IF params.tokenIn # weth THEN Revert(f0, "tokenIn must be WETH")
        ELSE LET f1 == RouterExactInputSingleWithETH(
                           f0, BundleSwapValue(value, params), params, ans, 1)
             IN  IF f1.status # "ok" THEN f1
                 ELSE EmitSwapBundled(f1, sender, params, f1.results[1])

(***************************************************************************)
(* bundleSwaps(pool, weth, swaps), payable.                                *)
(***************************************************************************)
\* totalValue += swaps[i].amountIn, in checked arithmetic; -1: overflow panic
RECURSIVE TotalValue(_, _, _)
TotalValue(swaps, i, acc) ==
    IF i > Len(swaps) THEN acc
    ELSE IF acc + swaps[i].amountIn > UintMax THEN -1
    ELSE TotalValue(swaps, i + 1, acc + swaps[i].amountIn)

\* require(msg.value >= totalValue, "Insufficient ETH")
ValueCovers(value, totalValue) == value >= totalValue

\* mutant: the batch path forwards nothing, like the single-swap path
ForwardOutput_Never(f, leg, amountOut) == f

\* if (swaps[i].tokenOut != address(0)) safeTransfer(recipient, results[i])
ForwardOutput(f, leg, amountOut) ==
    IF leg.tokenOut # ZERO
       THEN SafeTransfer(f, leg.tokenOut, leg.recipient, amountOut)
       ELSE f

\* mutant: a leg that fails is skipped and the batch goes on
SwapLeg_SkipFailed(f, weth, leg, ans, i) ==
    LET f1 == IF leg.tokenIn # weth THEN Revert(f, "tokenIn must be WETH")
              ELSE RouterExactInputSingleWithETH(f, leg.amountIn, leg, ans, i)
    IN  IF f1.status # "ok" THEN [f EXCEPT !.results = Append(@, 0)]
        ELSE [ForwardOutput(f1, leg, f1.results[i]) EXCEPT !.remaining = @ - leg.amountIn]

\* one iteration of the loop over the legs
SwapLeg(f, weth, leg, ans, i) ==
    IF leg.tokenIn # weth THEN Revert(f, "tokenIn must be WETH")
    ELSE LET f1 == RouterExactInputSingleWithETH(f, leg.amountIn, leg, ans, i)
         IN  IF f1.status # "ok" THEN f1
             ELSE LET f2 == ForwardOutput(f1, leg, f1.results[i])
                  IN  IF f2.status # "ok" THEN f2
                      ELSE [f2 EXCEPT !.remaining = @ - leg.amountIn]

RECURSIVE SwapLegs(_, _, _, _, _)
SwapLegs(f, weth, swaps, ans, i) ==
    IF i > Len(swaps) \/ f.status # "ok" THEN f
    ELSE SwapLegs(SwapLeg(f, weth, swaps[i], ans, i), weth, swaps, ans, i + 1)

\* mutant: the excess is kept by the bundler
RefundExcess_Forgotten(f, sender, accepts) == f

\* if (remainingValue > 0) payable(msg.sender).transfer(remainingValue);
\* accepts: whether the submitter's account takes a plain transfer
RefundExcess(f, sender, accepts) ==
    IF f.remaining > 0
       THEN IF accepts
               THEN [f EXCEPT !.eth = MoveEth(@, BUNDLER, sender, f.remaining),
                              !.refund = f.remaining,
                              !.refunds = 1]
               ELSE Revert(f, "refund transfer failed")
       ELSE f

BundleSwaps(eth, tok, sender, value, weth, swaps, ans, accepts) ==
    LET f0 == Enter(eth, tok, sender, value)
        totalValue == TotalValue(swaps, 1, 0)
    IN  IF ~(Len(swaps) > 0) THEN Revert(f0, "No swaps provided")
        ELSE IF totalValue = -1 THEN Revert(f0, "Panic: arithmetic overflow")
        ELSE IF ~ValueCovers(value, totalValue) THEN Revert(f0, "Insufficient ETH")
        ELSE LET f1 == SwapLegs([f0 EXCEPT !.remaining = value], weth, swaps, ans, 1)
             IN  IF f1.status # "ok" THEN f1
                 ELSE RefundExcess(f1, sender, accepts)

(***************************************************************************)
(* bundleSwapWithObfuscation(pool, weth, params, dummyOps), payable.       *)
(***************************************************************************)
\* the cap of the padding loop
MaxPadding == 10

\* mutant: the loop runs dummyOps times, whatever the cap
PaddingOps_Uncapped(i, dummyOps) == dummyOps

\* for (i = 0; i < dummyOps && i < 10; i++): the number of iterations run
RECURSIVE PaddingOps(_, _)
PaddingOps(i, dummyOps) ==
    IF i < dummyOps /\ i < MaxPadding THEN PaddingOps(i + 1, dummyOps) ELSE i

BundleSwapWithObfuscation(eth, tok, sender, value, weth, params, dummyOps, ans) ==
    LET f0 == [Enter(eth, tok, sender, value) EXCEPT
                  !.padding = PaddingOps(0, dummyOps)]
    IN  IF ~(value > 0) THEN Revert(f0, "Must send ETH")
        ELSE IF params.tokenIn # weth THEN Revert(f0, "tokenIn must be WETH")
        ELSE LET f1 == RouterExactInputSingleWithETH(f0, value, params, ans, 1)
             IN  IF f1.status # "ok" THEN f1
                 ELSE LET f2 == ForwardOutput(f1, params, f1.results[1])
                      IN  IF f2.status # "ok" THEN f2
                          ELSE EmitSwapBundled(f2, sender, params, f2.results[1])

(***************************************************************************)
(* withdraw(token, to): no caller check.                                   *)
(***************************************************************************)
\* mutant: only native value can be taken out
Withdraw_NativeOnly(eth, tok, token, to, accepts) ==
    LET f0 == Frame(eth, tok)
    IN  IF ~(to # ZERO) THEN Revert(f0, "Invalid recipient")
        ELSE IF token = ZERO /\ accepts
                THEN [f0 EXCEPT !.eth = MoveEth(@, BUNDLER, to, eth[BUNDLER])]
        ELSE IF token = ZERO THEN Revert(f0, "transfer failed")
        ELSE f0

\* accepts: whether the recipient takes a plain transfer of native value;
\* the bundler itself does, through receive()
Withdraw(eth, tok, token, to, accepts) ==
    LET f0 == Frame(eth, tok)
    IN  IF ~(to # ZERO) THEN Revert(f0, "Invalid recipient")
        ELSE IF token = ZERO
                THEN IF accepts
                        THEN [f0 EXCEPT !.eth = MoveEth(@, BUNDLER, to, eth[BUNDLER])]
                        ELSE Revert(f0, "transfer failed")
        ELSE IF tok[token][BUNDLER] > 0
                THEN SafeTransfer(f0, token, to, tok[token][BUNDLER])
        ELSE f0

(***************************************************************************)
(* A transaction either commits its frame or, reverted, leaves the chain   *)
(* as it was.                                                              *)
(***************************************************************************)
Commit(pre, f) ==
    IF f.status = "ok" THEN [eth |-> f.eth, tok |-> f.tok] ELSE pre

(***************************************************************************)
(* Inputs.                                                                 *)
(***************************************************************************)
BaseLeg ==
    [ tokenIn |-> WETH, tokenOut |-> USDC, recipient |-> U1,
      amountIn |-> 1, amountOutMinimum |-> 0 ]

LegChoices ==
    { BaseLeg,
      [BaseLeg EXCEPT !.tokenIn = USDC],
      [BaseLeg EXCEPT !.tokenOut = ZERO],
      [BaseLeg EXCEPT !.recipient = U2],
      [BaseLeg EXCEPT !.recipient = BUNDLER],
      [BaseLeg EXCEPT !.amountIn = 0],
      [BaseLeg EXCEPT !.amountIn = MaxEth],
      [BaseLeg EXCEPT !.amountIn = UintMax],
      [BaseLeg EXCEPT !.amountOutMinimum = UintMax] }

Batches == UNION { [1..n -> LegChoices] : n \in 0..MaxLegs }

Answers(n) == [failAt : 0..n, rate : 1..MaxRate]

DummyChoices == {0, 1, MaxPadding - 1, MaxPadding, MaxPadding + 1, MaxPadding + 5}

NoCall ==
    [ fn |-> "none", sender |-> ZERO, value |-> 0, swaps |-> << >>,
      dummyOps |-> 0, token |-> ZERO, to |-> ZERO,
      ans |-> [failAt |-> 0, rate |-> 1],
      pre |-> [eth |-> [a \in Accounts |-> 0], tok |-> [t \in Tokens |-> [a \in Accounts |-> 0]]],
      out |-> Frame([a \in Accounts |-> 0], [t \in Tokens |-> [a \in Accounts |-> 0]]) ]

Pre == [eth |-> ethBal, tok |-> tokBal]

Record(fn, sender, value, swaps, dummyOps, ans, f) ==
    [NoCall EXCEPT !.fn = fn, !.sender = sender, !.value = value, !.swaps = swaps,
                   !.dummyOps = dummyOps, !.ans = ans, !.pre = Pre, !.out = f]

Settle(f) ==
    /\ ethBal' = Commit(Pre, f).eth
    /\ tokBal' = Commit(Pre, f).tok

(***************************************************************************)
(* The chain.  The bundler keeps no storage, so what a transaction does    *)
(* depends on the balances alone: a behaviour funds the bundler (native    *)
(* value through receive(), stray tokens) and then sends one transaction,  *)
(* whose record stays in last.                                             *)
(***************************************************************************)
NotSent == last.fn = "none"

InitChain ==
    /\ ethBal = [a \in Accounts |-> IF a = U1 THEN MaxEth ELSE 0]
    /\ tokBal = [t \in Tokens |-> [a \in Accounts |-> 0]]
    /\ last = NoCall
    /\ pure = NoPure
    /\ cfg = NoCfg
    /\ run = IdleRun
    /\ trace = << >>

\* receive() external payable {}
ReceiveEth ==
    /\ NotSent
    /\ \E sender \in Users :
         /\ ethBal[sender] > 0
         /\ ethBal' = MoveEth(ethBal, sender, BUNDLER, 1)
    /\ UNCHANGED <<tokBal, last>>
    /\ UNCHANGED scriptVars

\* tokens sent to the bundler's address ("accidentally sent to this contract")
TokenDeposit ==
    /\ NotSent
    /\ \E t \in Tokens :
         /\ tokBal[t][BUNDLER] < MaxTok
         /\ tokBal' = [tokBal EXCEPT ![t][BUNDLER] = @ + 1]
    /\ UNCHANGED <<ethBal, last>>
    /\ UNCHANGED scriptVars

CallBundleSwap ==
    /\ NotSent
    /\ UNCHANGED scriptVars
    /\ \E sender \in Users, params \in LegChoices, ans \in Answers(1) :
         \E value \in 0..ethBal[sender] :
           LET f == BundleSwap(ethBal, tokBal, sender, value, WETH, params, ans)
           IN  /\ Settle(f)
               /\ last' = Record("bundleSwap", sender, value, <<params>>, 0, ans, f)

CallBundleSwaps ==
    /\ NotSent
    /\ UNCHANGED scriptVars
    /\ \E sender \in Users, swaps \in Batches, accepts \in BOOLEAN :
         \E value \in 0..ethBal[sender], ans \in Answers(Len(swaps)) :
           LET f == BundleSwaps(ethBal, tokBal, sender, value, WETH, swaps, ans, accepts)
           IN  /\ Settle(f)
               /\ last' = Record("bundleSwaps", sender, value, swaps, 0, ans, f)

CallBundleSwapWithObfuscation ==
    /\ NotSent
    /\ UNCHANGED scriptVars
    /\ \E sender \in Users, params \in LegChoices, ans \in Answers(1),
          dummyOps \in DummyChoices :
         \E value \in 0..ethBal[sender] :
           LET f == BundleSwapWithObfuscation(
                        ethBal, tokBal, sender, value, WETH, params, dummyOps, ans)
           IN  /\ Settle(f)
               /\ last' = Record("bundleSwapWithObfuscation", sender, value,
                                 <<params>>, dummyOps, ans, f)

CallWithdraw ==
    /\ NotSent
    /\ UNCHANGED scriptVars
    /\ \E caller \in Users, token \in Tokens \cup {ZERO},
          to \in Users \cup {BUNDLER, ZERO} :
         \E accepts \in (IF to = BUNDLER THEN {TRUE} ELSE BOOLEAN) :
           LET f == Withdraw(ethBal, tokBal, token, to, accepts)
           IN  /\ Settle(f)
               /\ last' = [Record("withdraw", caller, 0, << >>, 0, NoCall.ans, f)
                              EXCEPT !.token = token, !.to = to]

NextChain ==
    \/ ReceiveEth
    \/ TokenDeposit
    \/ CallBundleSwap
    \/ CallBundleSwaps
    \/ CallBundleSwapWithObfuscation
    \/ CallWithdraw

SpecChain == InitChain /\ [][NextChain]_vars

(***************************************************************************)
(* scripts/utils/swap-helpers.js: calculateMinOutput.                      *)
(***************************************************************************)
\* 10000n, the basis points of the whole
BpsDenominator == 10000

\* the / of two bigints: the quotient truncated towards zero
BigIntDiv(a, b) ==
    IF a >= 0 THEN a \div b ELSE -((-a) \div b)

\* mutant: the tolerated loss is rounded down instead of the floor
CalculateMinOutput_LossRoundedDown(expectedOutput, slippageBps) ==
    IF expectedOutput.null \/ expectedOutput.v = 0 THEN Returns(0)
    ELSE IF slippageBps.nan THEN Throws
    ELSE Returns(expectedOutput.v
                   - BigIntDiv(expectedOutput.v * slippageBps.v, BpsDenominator))

\* BigInt(slippageBps) raises a RangeError for NaN
CalculateMinOutput(expectedOutput, slippageBps) ==
    IF expectedOutput.null \/ expectedOutput.v = 0 THEN Returns(0)
    ELSE IF slippageBps.nan THEN Throws
    ELSE LET slippageMultiplier == BpsDenominator - slippageBps.v
         IN  Returns(BigIntDiv(expectedOutput.v * slippageMultiplier, BpsDenominator))

\* largest of the small expected outputs tried
MaxQuote == 12

QuoteChoices ==
    {Null} \cup { Big(n) : n \in (0..MaxQuote)
                     \cup {BpsDenominator - 1, BpsDenominator, BpsDenominator + 1,
                           449 * 100} }

SlippageChoices ==
    {NaN} \cup { Num(n) : n \in {-1, 0, 1, 100, 200, BpsDenominator \div 2,
                                 BpsDenominator - 1, BpsDenominator,
                                 BpsDenominator + 1, 2 * BpsDenominator} }

InitSlippage ==
    /\ ethBal = [a \in Accounts |-> 0]
    /\ tokBal = [t \in Tokens |-> [a \in Accounts |-> 0]]
    /\ last = NoCall
    /\ cfg = NoCfg
    /\ run = IdleRun
    /\ trace = << >>
    /\ pure \in { [NoPure EXCEPT !.fn = "calculateMinOutput",
                                 !.expectedOutput = q, !.slippageBps = t] :
                    q \in QuoteChoices, t \in SlippageChoices }

CallCalculateMinOutput ==
    /\ pure.fn = "calculateMinOutput"
    /\ ~pure.called
    /\ pure' = [pure EXCEPT !.called = TRUE,
                            !.ret = CalculateMinOutput(pure.expectedOutput, pure.slippageBps)]
    /\ UNCHANGED <<chainVars, runVars>>

NextSlippage == CallCalculateMinOutput

SpecSlippage == InitSlippage /\ [][NextSlippage]_vars

\* the case C2 speaks of: an expected output above 0 and a tolerance within
\* [0, 10000] have been handed to calculateMinOutput
InRangeCall ==
    /\ pure.fn = "calculateMinOutput"
    /\ pure.called
    /\ ~pure.expectedOutput.null
    /\ pure.expectedOutput.v > 0
    /\ ~pure.slippageBps.nan
    /\ pure.slippageBps.v \in 0..BpsDenominator

\* C2: for q > 0 and an integer t in [0, 10000], calculateMinOutput(q, t) is
\* floor(q * (10000 - t) / 10000): the one integer r with
\* r * 10000 <= q * (10000 - t) < (r + 1) * 10000; it is at most q, it is q
\* for t = 0 and 0 for t = 10000.
C2_MinOutputIsFloor ==
    InRangeCall =>
        LET q == pure.expectedOutput.v
            t == pure.slippageBps.v
            r == pure.ret.v
        IN  /\ ~pure.ret.throws
            /\ r * BpsDenominator <= q * (BpsDenominator - t)
            /\ q * (BpsDenominator - t) < (r + 1) * BpsDenominator
            /\ r <= q
            /\ (t = 0 => r = q)
            /\ (t = BpsDenominator => r = 0)

\* q = 449 * 10^2 at 200 basis points gives 449 * 98
C2_Witness ==
    /\ InRangeCall
    /\ pure.expectedOutput.v = 449 * 100
    /\ pure.slippageBps.v = 200
    /\ pure.ret = Returns(449 * 98)


(***************************************************************************)
(* scripts/utils/swap-helpers.js: the route selection.                     *)
(***************************************************************************)
\* URLs, cut where the relay names start and end
FlashbotsUrl == <<"https://rpc.", "flashbots", ".net">>
EdenUrl == <<"https://api.", "eden", "network.io/v1/rpc">>
UpperFlashbotsUrl == <<"HTTPS://RPC.", "FLASHBOTS", ".NET">>
ReadmePrivateUrl == <<"https://rpc.", "private", ".io/sepolia">>
SepoliaPublicUrl == <<"https://rpc.sepolia.org">>
AlchemyUrl == <<"https://eth-mainnet.g.", "alchemy.com", "/v2/key">>
OtherRelayUrl == <<"https://relay.example.org">>

\* String.prototype.toLowerCase on the strings of the model
ToLower(str) ==
    CASE str = "HTTPS://RPC." -> "https://rpc."
      [] str = "FLASHBOTS" -> "flashbots"
      [] str = ".NET" -> ".net"
      [] str = "Mainnet" -> "mainnet"
      [] str = "Sepolia" -> "sepolia"
      [] OTHER -> str

\* url.includes(pattern) for a relay name
Includes(url, pattern) == \E i \in 1..Len(url) : url[i] = pattern

LowerUrl(url) == [i \in 1..Len(url) |-> ToLower(url[i])]

\* chainId === 1n || chainId === 1
MainnetChainId == 1

IsProductionNetwork(chainId) == chainId = MainnetChainId

PrivatePatterns ==
    {"flashbots", "flashtrades", "eden", "bloxroute", "private", "protect"}

\* mutant: the URL is matched as written, upper case and all
IsPrivateRPC_CaseSensitive(rpcUrl) ==
    IF rpcUrl = NoUrl THEN FALSE
    ELSE \E pattern \in PrivatePatterns : Includes(rpcUrl, pattern)

IsPrivateRPC(rpcUrl) ==
    IF rpcUrl = NoUrl THEN FALSE
    ELSE LET url == LowerUrl(rpcUrl)
         IN  \E pattern \in PrivatePatterns : Includes(url, pattern)

\* PRIVATE_RPC_ENDPOINTS[provider][networkName]; NoUrl for null and undefined
PrivateRpcEndpoints(provider, networkName) ==
    CASE provider = "flashtrades" /\ networkName = "mainnet" -> FlashbotsUrl
      [] provider = "flashbots" /\ networkName = "mainnet" -> FlashbotsUrl
      [] provider = "eden" /\ networkName = "mainnet" -> EdenUrl
      [] OTHER -> NoUrl

GetPrivateRPCUrl(network) ==
    LET networkName == ToLower(network)
    IN  IF PrivateRpcEndpoints("flashtrades", networkName) # NoUrl
           THEN PrivateRpcEndpoints("flashtrades", networkName)
        ELSE IF networkName = "mainnet"
                /\ PrivateRpcEndpoints("flashbots", "mainnet") # NoUrl
           THEN PrivateRpcEndpoints("flashbots", "mainnet")
        ELSE IF networkName = "mainnet"
                /\ PrivateRpcEndpoints("eden", "mainnet") # NoUrl
           THEN PrivateRpcEndpoints("eden", "mainnet")
        ELSE NoUrl

Decision(throws, value, logs) == [throws |-> throws, value |-> value, logs |-> logs]

\* mutant: production without a private endpoint is only warned about
EnforcePrivateRPC_WarnOnly(chainId, network, rpcUrl) ==
    IF ToLower(network) = "sepolia" /\ ~IsPrivateRPC(rpcUrl)
       THEN Decision(FALSE, FALSE, <<"log:sepolia-notice">>)
    ELSE IF IsProductionNetwork(chainId) /\ IsPrivateRPC(rpcUrl)
       THEN Decision(FALSE, TRUE, <<"log:private-rpc-in-use">>)
    ELSE IF IsProductionNetwork(chainId)
       THEN Decision(FALSE, FALSE, <<"warn:production-public-mempool">>)
    ELSE Decision(FALSE, IsPrivateRPC(rpcUrl), << >>)

\* mutant: production without a private endpoint is always refused
EnforcePrivateRPC_AlwaysRefuse(chainId, network, rpcUrl) ==
    IF ToLower(network) = "sepolia" /\ ~IsPrivateRPC(rpcUrl)
       THEN Decision(FALSE, FALSE, <<"log:sepolia-notice">>)
    ELSE IF IsProductionNetwork(chainId) /\ IsPrivateRPC(rpcUrl)
       THEN Decision(FALSE, TRUE, <<"log:private-rpc-in-use">>)
    ELSE IF IsProductionNetwork(chainId)
       THEN Decision(TRUE, FALSE, <<"error:production-private-required">>)
    ELSE Decision(FALSE, IsPrivateRPC(rpcUrl), << >>)

\* enforcePrivateRPC, once provider.getNetwork() has answered chainId
EnforcePrivateRPC(chainId, network, rpcUrl) ==
    LET isProduction == IsProductionNetwork(chainId)
        networkName == ToLower(network)
    IN  IF networkName = "sepolia" /\ ~IsPrivateRPC(rpcUrl)
           THEN Decision(FALSE, FALSE, <<"log:sepolia-notice">>)
        ELSE IF isProduction /\ ~IsPrivateRPC(rpcUrl)
           THEN IF GetPrivateRPCUrl(network) # NoUrl
                   THEN Decision(TRUE, FALSE, <<"error:production-private-required">>)
                   ELSE Decision(FALSE, IsPrivateRPC(rpcUrl),
                                 <<"warn:production-public-mempool">>)
        ELSE IF isProduction
           THEN Decision(FALSE, TRUE, <<"log:private-rpc-in-use">>)
        ELSE Decision(FALSE, IsPrivateRPC(rpcUrl), << >>)

(***************************************************************************)
(* scripts/utils/swap-helpers.js: the quote.                               *)
(***************************************************************************)
\* 2**96, the one of the fixed-point square-root price, scaled down
Q96 == 2

Quoted(quote, calls) == [quote |-> quote, calls |-> calls]

\* pool: [slot0Ok, sqrtPriceX96, token0Ok, token0], what the pool answers.
\* The floating-point arithmetic is modelled exactly; BigInt(Infinity), for
\* a price of 0, raises a RangeError, which the catch turns into null.
GetQuoteFromPool(tokenIn, amountIn, pool) ==
    IF ~pool.slot0Ok THEN Quoted(Null, <<"call:pool.slot0", "fail:pool.slot0">>)
    ELSE IF ~pool.token0Ok
       THEN Quoted(Null, <<"call:pool.slot0", "call:pool.token0", "fail:pool.token0">>)
    ELSE LET calls == <<"call:pool.slot0", "call:pool.token0">>
             priceNum == pool.sqrtPriceX96 * pool.sqrtPriceX96
             priceDen == Q96 * Q96
             zeroForOne == ToLower(pool.token0) = ToLower(tokenIn)
         IN  IF zeroForOne
                THEN Quoted(Big((amountIn * priceNum) \div priceDen), calls)
             ELSE IF priceNum = 0 THEN Quoted(Null, Append(calls, "fail:BigInt"))
             ELSE Quoted(Big((amountIn * priceDen) \div priceNum), calls)

\* mutant: the pool state is read first and the oracle asked only when
\* that gives nothing
GetSwapQuote_PoolFirst(quoterConfigured, tokenIn, amountIn, oracle, pool) ==
    LET q == GetQuoteFromPool(tokenIn, amountIn, pool)
    IN  IF ~q.quote.null \/ ~quoterConfigured THEN q
        ELSE IF oracle.ok
           THEN Quoted(Big(oracle.v), q.calls \o <<"call:quoter">>)
        ELSE Quoted(Null, q.calls \o <<"call:quoter", "fail:quoter">>)

\* oracle: [ok, v], what quoteExactInputSingle.staticCall answers; a call
\* that raises is followed by its fail: entry
GetSwapQuote(quoterConfigured, tokenIn, amountIn, oracle, pool) ==
    IF quoterConfigured
       THEN IF oracle.ok
               THEN Quoted(Big(oracle.v), <<"call:quoter">>)
               ELSE LET q == GetQuoteFromPool(tokenIn, amountIn, pool)
                    IN  Quoted(q.quote, <<"call:quoter", "fail:quoter">> \o q.calls)
       ELSE GetQuoteFromPool(tokenIn, amountIn, pool)


(***************************************************************************)
(* scripts/swap-with-bundler.js: main(), one action per await or branch.   *)
(* Amounts of native value are in units of 0.001 ETH.                      *)
(***************************************************************************)
\* ethers.parseEther("0.002")
AmountIn == 2
\* ethers.parseEther("0.001"), kept for gas
GasReserve == 1

RequiredEnv ==
    {"POOL_ADDRESS", "WETH_ADDRESS", "USDC_ADDRESS", "ROUTER_ADDRESS", "BUNDLER_ADDRESS"}

CfgChoices ==
    [ missing       : {"none"} \cup RequiredEnv,
      usePrivateRpc : BOOLEAN,
      privateRpcUrl : {NoUrl, ReadmePrivateUrl, OtherRelayUrl},
      slippageBps   : {Num(200), Num(BpsDenominator), Num(2 * BpsDenominator), NaN} ]

\* process.env.SEPOLIA_RPC_URL and process.env.ETH_RPC_URL
RpcEnvChoices ==
    { [sepolia |-> NoUrl, eth |-> NoUrl],
      [sepolia |-> SepoliaPublicUrl, eth |-> NoUrl],
      [sepolia |-> NoUrl, eth |-> AlchemyUrl],
      [sepolia |-> NoUrl, eth |-> FlashbotsUrl],
      [sepolia |-> NoUrl, eth |-> UpperFlashbotsUrl],
      [sepolia |-> SepoliaPublicUrl, eth |-> FlashbotsUrl] }

\* process.env.SEPOLIA_RPC_URL || process.env.ETH_RPC_URL || ""
RpcUrlOf(env) ==
    IF env.sepolia # NoUrl THEN env.sepolia
    ELSE IF env.eth # NoUrl THEN env.eth
    ELSE NoUrl

\* hre.network.name
NetworkChoices == {"mainnet", "Mainnet", "sepolia", "hardhat"}

\* what provider.getNetwork() answers: mainnet or Sepolia
ChainIdChoices == {MainnetChainId, 11155111}

OracleAnswers == {[ok |-> FALSE, v |-> 0], [ok |-> TRUE, v |-> 0], [ok |-> TRUE, v |-> 3]}

PoolAnswers ==
    { [slot0Ok |-> FALSE, sqrtPriceX96 |-> 0, token0Ok |-> FALSE, token0 |-> WETH],
      [slot0Ok |-> TRUE, sqrtPriceX96 |-> Q96, token0Ok |-> FALSE, token0 |-> WETH] }
    \cup [ slot0Ok : {TRUE}, sqrtPriceX96 : {0, 1, Q96, 2 * Q96},
           token0Ok : {TRUE}, token0 : {WETH, USDC} ]

\* rpcUrl.includes("alchemy.com"), on the URL as written
IsAlchemy(rpcUrl) == Includes(rpcUrl, "alchemy.com")

\* lines 216-234: the parameters are printed
ParameterLogs(rpcUrl, isPrivate) ==
    <<"log:parameters">>
    \o (IF IsAlchemy(rpcUrl) /\ ~isPrivate THEN <<"log:alchemy-no-privacy">> ELSE << >>)
    \o (IF isPrivate THEN <<"log:using-private-rpc">>
                     ELSE <<"log:using-bundler-protection">>)

Exited(r, code) == [r EXCEPT !.pc = "exit", !.exitCode = code]

\* lines 271-278: the floor handed to the swap
Floor(throws, v, logs) == [throws |-> throws, v |-> v, logs |-> logs]

\* mutant: a run without a quote is given up
MinAmountOut_AbortWithoutQuote(expectedOutput, slippageBps) ==
    IF ~expectedOutput.null /\ expectedOutput.v > 0
       THEN LET r == CalculateMinOutput(expectedOutput, slippageBps)
            IN  Floor(r.throws, r.v, <<"log:expected-output">>)
       ELSE Floor(TRUE, 0, << >>)

MinAmountOut(expectedOutput, slippageBps) ==
    IF ~expectedOutput.null /\ expectedOutput.v > 0
       THEN LET r == CalculateMinOutput(expectedOutput, slippageBps)
            IN  Floor(r.throws, r.v, <<"log:expected-output">>)
       ELSE Floor(FALSE, 0, <<"warn:no-slippage-protection">>)

\* lines 282-291
Params(r) ==
    [ tokenIn |-> WETH, tokenOut |-> USDC, recipient |-> U1,
      amountIn |-> AmountIn, amountOutMinimum |-> r.minAmountOut ]

\* a uint256 argument outside its range is refused when the call is encoded
Encodable(params) == params.amountOutMinimum \in 0..UintMax

\* const finalPrivateRPC = privateRPCUrl || PRIVATE_RPC_URL; privateRPCUrl is
\* null, enforcePrivateRPC returning no string
FinalPrivateRPC == cfg.privateRpcUrl

\* if (finalPrivateRPC && isPrivateRPC(finalPrivateRPC))
PrivatePath == FinalPrivateRPC # NoUrl /\ IsPrivateRPC(FinalPrivateRPC)

\* mutant: the fallback goes through the private endpoint again
FallbackSubmission_PrivateAgain == "submit:private"

\* tx = await bundler.bundleSwap(...) in the catch of the private attempt
FallbackSubmission == "submit:standard"

InitRun ==
    /\ ethBal \in { [a \in Accounts |-> IF a = U1 THEN b ELSE 0] :
                      b \in {AmountIn + GasReserve - 1, AmountIn + GasReserve} }
    /\ tokBal = [t \in Tokens |-> [a \in Accounts |-> 0]]
    /\ last = NoCall
    /\ pure = NoPure
    /\ cfg \in CfgChoices
    /\ run = [IdleRun EXCEPT !.pc = "getSigners"]
    /\ trace = << >>

\* const [signer] = await ethers.getSigners()
RunGetSigners ==
    /\ run.pc = "getSigners"
    /\ \E ok \in BOOLEAN :
         IF ok
            THEN /\ trace' = Append(trace, "call:getSigners")
                 /\ run' = [run EXCEPT !.pc = "getBalance"]
            ELSE /\ trace' = trace \o <<"call:getSigners", "error:uncaught">>
                 /\ run' = Exited(run, 1)
    /\ UNCHANGED <<chainVars, pure, cfg>>

\* const balance = await ethers.provider.getBalance(signer.address)
RunGetBalance ==
    /\ run.pc = "getBalance"
    /\ \E ok \in BOOLEAN :
         IF ok
            THEN /\ trace' = Append(trace, "call:getBalance")
                 /\ run' = [run EXCEPT !.pc = "checkConfig", !.balance = ethBal[U1]]
            ELSE /\ trace' = trace \o <<"call:getBalance", "error:uncaught">>
                 /\ run' = Exited(run, 1)
    /\ UNCHANGED <<chainVars, pure, cfg>>

\* mutant: the run goes to the quote without deciding the route
RunCheckConfig_NoRouteDecision ==
    /\ run.pc = "checkConfig"
    /\ IF cfg.missing # "none"
          THEN /\ trace' = Append(trace, "error:missing-env")
               /\ run' = Exited(run, 1)
          ELSE /\ trace' = trace
               /\ run' = [run EXCEPT !.pc = "checkBalance"]
    /\ UNCHANGED <<chainVars, pure, cfg>>

\* lines 172-184
RunCheckConfig ==
    /\ run.pc = "checkConfig"
    /\ IF cfg.missing # "none"
          THEN /\ trace' = Append(trace, "error:missing-env")
               /\ run' = Exited(run, 1)
          ELSE /\ trace' = trace
               /\ run' = [run EXCEPT !.pc = "enforce"]
    /\ UNCHANGED <<chainVars, pure, cfg>>

\* lines 190-235: the environment's endpoint and network are read, the
\* chain is asked its id and the route is decided
RunEnforcePrivateRPC ==
    /\ run.pc = "enforce"
    /\ \E env \in RpcEnvChoices, network \in NetworkChoices,
          chainId \in ChainIdChoices, ok \in BOOLEAN :
         LET rpcUrl == RpcUrlOf(env)
             d == EnforcePrivateRPC(chainId, network, rpcUrl)
             r == [run EXCEPT !.rpcUrl = rpcUrl, !.network = network]
             isPrivate == \/ d.value
                          \/ IsPrivateRPC(rpcUrl)
                          \/ (cfg.usePrivateRpc /\ cfg.privateRpcUrl # NoUrl)
         IN  IF ~ok
                THEN /\ trace' = trace \o <<"call:getNetwork", "error:message">>
                     /\ run' = Exited(r, 1)
             ELSE IF d.throws
                THEN /\ trace' = trace \o <<"call:getNetwork">> \o d.logs
                                       \o <<"error:message">>
                     /\ run' = Exited([r EXCEPT !.chainId = chainId,
                                                !.enforced = TRUE,
                                                !.refused = TRUE], 1)
             ELSE /\ trace' = trace \o <<"call:getNetwork">> \o d.logs
                                    \o ParameterLogs(rpcUrl, isPrivate)
                  /\ run' = [r EXCEPT
                        !.chainId = chainId,
                        !.enforced = TRUE,
                        !.enforceResult = d.value,
                        !.isPrivate = isPrivate,
                        !.pc = "checkBalance"]
    /\ UNCHANGED <<chainVars, pure, cfg>>

\* lines 237-241
RunCheckBalance ==
    /\ run.pc = "checkBalance"
    /\ IF run.balance < AmountIn + GasReserve
          THEN /\ trace' = Append(trace, "error:insufficient-balance")
               /\ run' = Exited(run, 0)
          ELSE /\ trace' = trace
               /\ run' = [run EXCEPT !.pc = "readToken"]
    /\ UNCHANGED <<chainVars, pure, cfg>>

\* lines 243-257: the bundler and the output token are looked up
RunReadToken ==
    /\ run.pc = "readToken"
    /\ \E ok \in BOOLEAN :
         IF ok
            THEN /\ trace' = Append(trace, "call:usdc.read")
                 /\ run' = [run EXCEPT !.pc = "quote"]
            ELSE /\ trace' = trace \o <<"call:usdc.read", "error:uncaught">>
                 /\ run' = Exited(run, 1)
    /\ UNCHANGED <<chainVars, pure, cfg>>

\* lines 260-269
RunGetSwapQuote ==
    /\ run.pc = "quote"
    /\ \E quoterConfigured \in BOOLEAN, oracle \in OracleAnswers, pool \in PoolAnswers :
         LET q == GetSwapQuote(quoterConfigured, WETH, AmountIn, oracle, pool)
         IN  /\ trace' = trace \o <<"log:getting-quote">> \o q.calls
             /\ run' = [run EXCEPT !.pc = "minOutput", !.quoted = TRUE,
                                   !.expectedOutput = q.quote]
    /\ UNCHANGED <<chainVars, pure, cfg>>

\* lines 271-279; what calculateMinOutput throws lands in the catch of line 387
RunMinOutput ==
    /\ run.pc = "minOutput"
    /\ LET m == MinAmountOut(run.expectedOutput, cfg.slippageBps)
       IN  IF m.throws
              THEN /\ trace' = trace \o m.logs \o <<"error:swap-failed">>
                   /\ run' = Exited(run, 0)
              ELSE /\ trace' = trace \o m.logs
                   /\ run' = [run EXCEPT !.pc = "submit", !.minAmountOut = m.v]
    /\ UNCHANGED <<chainVars, pure, cfg>>

\* lines 311-330: the attempt through the private endpoint; without
\* PRIVATE_KEY it throws before anything is submitted
RunSubmitPrivate ==
    /\ run.pc = "submit"
    /\ PrivatePath
    /\ \E privateKey \in BOOLEAN, ok \in BOOLEAN :
         IF ~privateKey
            THEN /\ trace' = trace \o <<"log:private-submission", "log:fallback">>
                 /\ run' = [run EXCEPT !.pc = "fallback"]
         ELSE IF ok /\ Encodable(Params(run))
            THEN /\ trace' = trace \o <<"log:private-submission", "submit:private">>
                 /\ run' = [run EXCEPT !.pc = "wait", !.tx = "private"]
         ELSE /\ trace' = trace \o <<"log:private-submission", "submit:private",
                                     "log:fallback">>
              /\ run' = [run EXCEPT !.pc = "fallback", !.privateFailed = TRUE]
    /\ UNCHANGED <<chainVars, pure, cfg>>

\* lines 331-341
RunFallback ==
    /\ run.pc = "fallback"
    /\ \E ok \in BOOLEAN :
         IF ok /\ Encodable(Params(run))
            THEN /\ trace' = Append(trace, FallbackSubmission)
                 /\ run' = [run EXCEPT !.pc = "wait", !.tx = "standard"]
            ELSE /\ trace' = trace \o <<FallbackSubmission, "error:swap-failed">>
                 /\ run' = Exited([run EXCEPT !.standardFailed = TRUE], 0)
    /\ UNCHANGED <<chainVars, pure, cfg>>

\* lines 342-352
RunSubmitStandard ==
    /\ run.pc = "submit"
    /\ ~PrivatePath
    /\ \E ok \in BOOLEAN :
         IF ok /\ Encodable(Params(run))
            THEN /\ trace' = trace \o <<"log:standard-submission", "submit:standard">>
                 /\ run' = [run EXCEPT !.pc = "wait", !.tx = "standard"]
            ELSE /\ trace' = trace \o <<"log:standard-submission", "submit:standard",
                                        "error:swap-failed">>
                 /\ run' = Exited([run EXCEPT !.standardFailed = TRUE], 0)
    /\ UNCHANGED <<chainVars, pure, cfg>>

\* lines 354-359: the transaction is mined, bundleSwap runs on the chain, and
\* tx.wait() gives the receipt, or throws for a reverted transaction or a
\* lost connection
RunWait ==
    /\ run.pc = "wait"
    /\ \E ok \in BOOLEAN, ans \in Answers(1) :
         LET f == BundleSwap(ethBal, tokBal, U1, AmountIn, WETH, Params(run), ans)
         IN  IF ok /\ f.status = "ok"
                THEN /\ Settle(f)
                     /\ last' = Record("bundleSwap", U1, AmountIn, <<Params(run)>>, 0, ans, f)
                     /\ trace' = trace \o <<"call:wait", "log:confirmed">>
                     /\ run' = [run EXCEPT !.pc = "report", !.receipt = f.events]
                ELSE /\ UNCHANGED chainVars
                     /\ trace' = trace \o <<"call:wait", "error:swap-failed">>
                     /\ run' = Exited(run, 0)
    /\ UNCHANGED <<pure, cfg>>

\* lines 361-385 after the confirmation: usdcOk and ethOk say whether the
\* two balance reads answer, found whether a log of the receipt parses as
\* SwapBundled; a read that raises lands in the catch of line 387
ReportOf(usdcOk, ethOk, found) ==
    IF ~usdcOk
       THEN [ record |-> "unread",
              logs |-> <<"call:usdc.balanceOf", "fail:usdc.balanceOf",
                         "error:swap-failed">> ]
    ELSE IF ~ethOk
       THEN [ record |-> "unread",
              logs |-> <<"call:usdc.balanceOf", "log:completed",
                         "call:getBalance", "fail:getBalance", "error:swap-failed">> ]
    ELSE IF found
       THEN [ record |-> "found",
              logs |-> <<"call:usdc.balanceOf", "log:completed",
                         "call:getBalance", "log:bundle-id">> ]
    ELSE [ record |-> "missing",
           logs |-> <<"call:usdc.balanceOf", "log:completed", "call:getBalance">> ]

\* mutant: a receipt without the record is a failed swap
RunReport_RecordRequired ==
    /\ run.pc = "report"
    /\ \E usdcOk \in BOOLEAN, ethOk \in BOOLEAN, found \in BOOLEAN :
         LET rep == ReportOf(usdcOk, ethOk, found /\ run.receipt # << >>)
         IN  /\ trace' = IF rep.record = "missing"
                            THEN trace \o rep.logs \o <<"error:swap-failed">>
                            ELSE trace \o rep.logs
             /\ run' = Exited([run EXCEPT !.record = rep.record], 0)
    /\ UNCHANGED <<chainVars, pure, cfg>>

RunReport ==
    /\ run.pc = "report"
    /\ \E usdcOk \in BOOLEAN, ethOk \in BOOLEAN, found \in BOOLEAN :
         LET rep == ReportOf(usdcOk, ethOk, found /\ run.receipt # << >>)
         IN  /\ trace' = trace \o rep.logs
             /\ run' = Exited([run EXCEPT !.record = rep.record], 0)
    /\ UNCHANGED <<chainVars, pure, cfg>>

NextRun ==
    \/ RunGetSigners
    \/ RunGetBalance
    \/ RunCheckConfig
    \/ RunEnforcePrivateRPC
    \/ RunCheckBalance
    \/ RunReadToken
    \/ RunGetSwapQuote
    \/ RunMinOutput
    \/ RunSubmitPrivate
    \/ RunFallback
    \/ RunSubmitStandard
    \/ RunWait
    \/ RunReport

SpecRun == InitRun /\ [][NextRun]_vars


(***************************************************************************)
(* Properties of the bundler's transactions.                               *)
(***************************************************************************)
\* a1 + ... + an as a mathematical sum, whatever the width of the integers
RECURSIVE SumAmountIn(_)
SumAmountIn(swaps) ==
    IF swaps = << >> THEN 0 ELSE Head(swaps).amountIn + SumAmountIn(Tail(swaps))

IsCall(fn) == last.fn = fn
Succeeded == last.out.status = "ok"

\* the refund of a successful batch: the transfer made and the value the
\* submitter has paid in the end
RefundIsExactly(amount) ==
    /\ last.out.refund = amount
    /\ last.out.refunds = (IF amount = 0 THEN 0 ELSE 1)
    /\ ethBal[last.sender] = last.pre.eth[last.sender] - last.value + amount

\* C1 (as stated): a successful bundleSwaps refunds exactly V - (a1+...+an), with
\* no refund transfer when that is 0, and with V < a1+...+an the call fails
\* with "Insufficient ETH" before the router is invoked for any leg.
C1_Original ==
    IsCall("bundleSwaps") =>
        /\ (last.value >= SumAmountIn(last.swaps) /\ Succeeded)
              => RefundIsExactly(last.value - SumAmountIn(last.swaps))
        /\ last.value < SumAmountIn(last.swaps)
              => /\ ~Succeeded
                 /\ last.out.reason = "Insufficient ETH"
                 /\ last.out.routerCalls = << >>

\* C1 (amended): a successful bundleSwaps refunds exactly V - (a1+...+an), with
\* no refund transfer when that is 0; with V < a1+...+an the call fails before
\* the router is invoked for any leg, with "Insufficient ETH" when the sum
\* fits the unsigned integer type and with an arithmetic overflow panic when
\* it does not.
C1_RefundExact ==
    IsCall("bundleSwaps") =>
        /\ (last.value >= SumAmountIn(last.swaps) /\ Succeeded)
              => RefundIsExactly(last.value - SumAmountIn(last.swaps))
        /\ last.value < SumAmountIn(last.swaps)
              => /\ ~Succeeded
                 /\ last.out.routerCalls = << >>
                 /\ last.out.reason =
                        (IF SumAmountIn(last.swaps) <= UintMax
                            THEN "Insufficient ETH"
                            ELSE "Panic: arithmetic overflow")

\* a batch of two legs went through and the submitter got an excess back
C1_Witness ==
    /\ IsCall("bundleSwaps")
    /\ Succeeded
    /\ Len(last.swaps) = 2
    /\ last.out.refund > 0
    /\ last.out.refund = last.value - SumAmountIn(last.swaps)

\* the transfer the bundler makes for leg i
ForwardOf(i) ==
    [ token  |-> last.swaps[i].tokenOut,
      to     |-> last.swaps[i].recipient,
      amount |-> last.out.results[i] ]

\* the legs whose output the bundler forwards, in leg order
ForwardedLegs ==
    SelectSeq([i \in 1..Len(last.swaps) |-> i],
              LAMBDA i : last.swaps[i].tokenOut # ZERO)

\* C7 (as stated): a successful bundleSwap makes no output-token transfer; a
\* successful bundleSwaps over n legs makes exactly n, the i-th sending leg i's
\* result to leg i's recipient.
C7_Original ==
    /\ (IsCall("bundleSwap") /\ Succeeded) => last.out.transfers = << >>
    /\ (IsCall("bundleSwaps") /\ Succeeded) =>
          /\ Len(last.out.transfers) = Len(last.swaps)
          /\ \A i \in 1..Len(last.swaps) : last.out.transfers[i] = ForwardOf(i)

\* C7 (amended): a successful bundleSwap makes no output-token transfer; a
\* successful bundleSwaps makes exactly one per leg whose tokenOut is not the
\* zero address (none for a leg whose tokenOut is the zero address), each
\* sending that leg's result to that leg's recipient, in leg order.
C7_Forwards ==
    /\ (IsCall("bundleSwap") /\ Succeeded) => last.out.transfers = << >>
    /\ (IsCall("bundleSwaps") /\ Succeeded) =>
          /\ Len(last.out.results) = Len(last.swaps)
          /\ Len(last.out.transfers) = Len(ForwardedLegs)
          /\ \A k \in 1..Len(ForwardedLegs) :
                last.out.transfers[k] = ForwardOf(ForwardedLegs[k])

\* a batch of two legs with different recipients and different results went
\* through
C7_Witness ==
    /\ IsCall("bundleSwaps")
    /\ Succeeded
    /\ Len(last.swaps) = 2
    /\ Len(last.out.transfers) = 2
    /\ last.out.transfers[1].to # last.out.transfers[2].to
    /\ last.out.transfers[1].amount # last.out.transfers[2].amount

\* C8: a bundleSwaps call is all-or-nothing: when a leg, a forward or the
\* refund fails, every balance is what it was before the call; otherwise every
\* leg has run: the router was invoked once per leg and holds the sum of the
\* legs' amounts more than before, and the chain holds the result of all legs.
C8_AllOrNothing ==
    IsCall("bundleSwaps") =>
        /\ ~Succeeded => (ethBal = last.pre.eth /\ tokBal = last.pre.tok)
        /\ Succeeded =>
              /\ Len(last.out.routerCalls) = Len(last.swaps)
              /\ Len(last.out.results) = Len(last.swaps)
              /\ \A i \in 1..Len(last.swaps) :
                    last.out.routerCalls[i] =
                        [value |-> last.swaps[i].amountIn, params |-> last.swaps[i]]
              /\ ethBal[ROUTER] = last.pre.eth[ROUTER] + SumAmountIn(last.swaps)
              /\ ethBal = last.out.eth
              /\ tokBal = last.out.tok

\* the second leg of a batch failed after the first had run, and nothing of
\* the first leg is left
C8_Witness ==
    /\ IsCall("bundleSwaps")
    /\ ~Succeeded
    /\ Len(last.swaps) = 2
    /\ Len(last.out.results) = 1
    /\ last.out.eth # last.pre.eth
    /\ ethBal = last.pre.eth
    /\ tokBal = last.pre.tok

\* C9 (as stated): in every successful bundleSwap the value handed to the
\* router equals the leg's amountIn, the router is invoked exactly once and
\* nothing is refunded.
C9_Original ==
    (IsCall("bundleSwap") /\ Succeeded) =>
        /\ Len(last.out.routerCalls) = 1
        /\ last.out.routerCalls[1].value = last.swaps[1].amountIn
        /\ last.out.refund = 0

\* C10: bundleSwapWithObfuscation runs min(dummyOps, 10) padding operations,
\* and a call with dummyOps above the cap has the outcome, effects and padding
\* count of the same call with dummyOps = 10.
C10_PaddingCapped ==
    IsCall("bundleSwapWithObfuscation") =>
        /\ last.out.padding =
              (IF last.dummyOps < MaxPadding THEN last.dummyOps ELSE MaxPadding)
        /\ last.dummyOps > MaxPadding =>
              last.out = BundleSwapWithObfuscation(
                             last.pre.eth, last.pre.tok, last.sender, last.value,
                             WETH, last.swaps[1], MaxPadding, last.ans)

\* a call with dummyOps = 15 went through with 10 padding operations
C10_Witness ==
    /\ IsCall("bundleSwapWithObfuscation")
    /\ Succeeded
    /\ last.dummyOps = MaxPadding + 5
    /\ last.out.padding = MaxPadding

(***************************************************************************)
(* Properties of an orchestration run.                                     *)
(***************************************************************************)
Logged(e) == \E i \in DOMAIN trace : trace[i] = e

Count(e) == Cardinality({ i \in DOMAIN trace : trace[i] = e })

Submissions == {"submit:private", "submit:standard"}

Submitted == \E i \in DOMAIN trace : trace[i] \in Submissions

\* every occurrence of a comes before every occurrence of b
Precedes(a, b) ==
    \A j \in DOMAIN trace : trace[j] = b => \A i \in j..Len(trace) : trace[i] # a

QuoteRequests == {"call:quoter", "call:pool.slot0", "call:pool.token0"}

QuoteRequested == \E i \in DOMAIN trace : trace[i] \in QuoteRequests

\* production, an endpoint that is not recognised as private, and no private
\* endpoint known for the network
ProductionWithoutAlternative ==
    /\ run.enforced
    /\ IsProductionNetwork(run.chainId)
    /\ ~IsPrivateRPC(run.rpcUrl)
    /\ GetPrivateRPCUrl(run.network) = NoUrl

\* production, an endpoint that is not recognised as private, and a private
\* endpoint known for the network
ProductionWithAlternative ==
    /\ run.enforced
    /\ IsProductionNetwork(run.chainId)
    /\ ~IsPrivateRPC(run.rpcUrl)
    /\ GetPrivateRPCUrl(run.network) # NoUrl

C4_FailFast ==
    ProductionWithAlternative =>
        /\ run.refused
        /\ Logged("error:production-private-required")
        /\ run.pc = "exit"
        /\ run.exitCode = 1
        /\ ~run.quoted
        /\ ~QuoteRequested
        /\ ~Submitted
        /\ last = NoCall

C4_Witness ==
    /\ ProductionWithAlternative
    /\ run.network = "Mainnet"
    /\ run.rpcUrl = AlchemyUrl
    /\ run.refused
    /\ run.pc = "exit"

\* C5: a run makes at most one submission through the private endpoint and
\* at most one through the standard endpoint; a failed private submission is
\* followed by the logged downgrade and then exactly one standard
\* submission, never by another private one; a failed standard submission
\* is reported as the failure of the swap and ends the run.
C5_SingleFallback ==
    /\ Count("submit:private") <= 1
    /\ Count("submit:standard") <= 1
    /\ Count("log:fallback") <= 1
    /\ Precedes("submit:private", "log:fallback")
    /\ Precedes("log:fallback", "submit:standard")
    /\ run.privateFailed =>
          /\ Count("submit:private") = 1
          /\ Logged("log:fallback")
          /\ run.pc # "fallback" => Count("submit:standard") = 1
    /\ run.standardFailed =>
          /\ run.pc = "exit"
          /\ Len(trace) >= 2
          /\ trace[Len(trace)] = "error:swap-failed"
          /\ trace[Len(trace) - 1] = "submit:standard"

C5_Witness ==
    /\ run.privateFailed
    /\ run.standardFailed
    /\ Count("submit:private") = 1
    /\ Count("submit:standard") = 1
    /\ run.pc = "exit"

QuoteAbsent == run.quoted /\ (run.expectedOutput.null \/ run.expectedOutput.v = 0)

\* C6: when getSwapQuote gives null or 0, then for every tolerance
\* calculateMinOutput gives 0, the minimum output of the swap is 0, the
\* no-slippage-protection warning is logged before any submission, and the
\* run is not given up: it ends only after it has submitted the swap, whose
\* amountOutMinimum is 0.
C6_NoQuoteNoFloor ==
    QuoteAbsent =>
        /\ CalculateMinOutput(run.expectedOutput, cfg.slippageBps) = Returns(0)
        /\ run.pc # "minOutput" =>
              /\ run.minAmountOut = 0
              /\ Params(run).amountOutMinimum = 0
              /\ Count("warn:no-slippage-protection") = 1
              /\ Precedes("warn:no-slippage-protection", "submit:private")
              /\ Precedes("warn:no-slippage-protection", "submit:standard")
        /\ run.pc = "exit" => Submitted
        /\ last.fn = "bundleSwap" => last.swaps[1].amountOutMinimum = 0

C6_Witness ==
    /\ QuoteAbsent
    /\ run.expectedOutput.null
    /\ cfg.slippageBps = NaN
    /\ Logged("warn:no-slippage-protection")
    /\ last.fn = "bundleSwap"
    /\ last.swaps[1].amountOutMinimum = 0
    /\ last.out.status = "ok"

\* what bundleSwap does for the arguments, the caller, the value and the
\* balances of the recorded call
AsBundleSwap ==
    BundleSwap(last.pre.eth, last.pre.tok, last.sender, last.value, WETH,
               last.swaps[1], last.ans)

\* C11 as stated: whatever dummyOps is, bundleSwapWithObfuscation succeeds
\* exactly when bundleSwap succeeds for the same arguments, caller, value and
\* chain state, and makes the same token transfers (none by the bundler),
\* hands the same value to the router, returns the same amount and emits
\* the same record.
C11_Original ==
    IsCall("bundleSwapWithObfuscation") =>
        /\ last.out.status = AsBundleSwap.status
        /\ last.out.transfers = AsBundleSwap.transfers
        /\ last.out.transfers = << >>
        /\ last.out.routerCalls = AsBundleSwap.routerCalls
        /\ last.out.results = AsBundleSwap.results
        /\ last.out.events = AsBundleSwap.events
        /\ Commit(last.pre, last.out) = Commit(last.pre, AsBundleSwap)

\* the endpoint's identifier, whatever its case, names one of the known relays
RecognizedPrivate(url) ==
    \E i \in DOMAIN url :
        ToLower(url[i]) \in {"flashbots", "flashtrades", "eden", "bloxroute",
                             "private", "protect"}

\* C12: once enforcePrivateRPC has answered, an endpoint recognised as
\* private gives the decision Private (true, no refusal) on chain id 1 and
\* on a test chain alike; on a test chain an endpoint that is not recognised
\* gives the standard route (false) and never a refusal.  The decision is
\* that of the chain id, the network name and the endpoint alone: the
\* private-routing settings of the configuration have no part in it.
C12_PrivateEndpointDecidesPrivate ==
    /\ run.enforced /\ RecognizedPrivate(run.rpcUrl) =>
          ~run.refused /\ run.enforceResult
    /\ run.enforced /\ ~IsProductionNetwork(run.chainId)
                    /\ ~RecognizedPrivate(run.rpcUrl) =>
          ~run.refused /\ ~run.enforceResult
    /\ run.enforced =>
          /\ run.refused = EnforcePrivateRPC(run.chainId, run.network, run.rpcUrl).throws
          /\ ~run.refused =>
                run.enforceResult =
                    EnforcePrivateRPC(run.chainId, run.network, run.rpcUrl).value

C12_Witness ==
    /\ run.enforced
    /\ run.rpcUrl = UpperFlashbotsUrl
    /\ IsProductionNetwork(run.chainId)
    /\ run.network = "sepolia"
    /\ run.enforceResult
    /\ cfg.privateRpcUrl = NoUrl
    /\ Logged("submit:standard")

\* the warnings of a run that tell of the exposure to the public mempool
ExposureWarnings == {"warn:production-public-mempool", "log:alchemy-no-privacy"}

ExposureWarned == \E i \in DOMAIN trace : trace[i] \in ExposureWarnings

\* C13 as stated: on chain id 1, with an endpoint that is not recognised as
\* private and no private endpoint known for the network, whatever the
\* network is named, enforcePrivateRPC does not refuse and answers false, and
\* a warning of the exposure is logged before any submission of the swap.
C13_Original ==
    ProductionWithoutAlternative =>
        /\ ~run.refused
        /\ ~run.enforceResult
        /\ Submitted =>
              /\ ExposureWarned
              /\ \A i, j \in DOMAIN trace :
                    trace[i] \in Submissions /\ trace[j] \in ExposureWarnings => j < i

\* the entries of the trace that are requests to the chain node
IsNetworkCall(e) ==
    e \in {"call:getSigners", "call:getBalance", "call:getNetwork", "call:usdc.read",
           "call:quoter", "call:pool.slot0", "call:pool.token0", "call:wait",
           "call:usdc.balanceOf", "submit:private", "submit:standard"}

NetworkCalled == \E i \in DOMAIN trace : IsNetworkCall(trace[i])

\* C14 as stated: when one of the required addresses is missing from the
\* configuration, the run ends with a failure and nothing has been asked of
\* the network by then: no signer lookup, balance query, network query,
\* quote or submission.
C14_Original ==
    cfg.missing # "none" =>
        /\ ~NetworkCalled
        /\ run.pc = "exit" => run.exitCode = 1 /\ Logged("error:missing-env")

\* a tolerance outside [0, 10000] basis points, or none at all, has been
\* handed to calculateMinOutput with an expected output above 0
OutOfRangeCall ==
    /\ pure.fn = "calculateMinOutput"
    /\ pure.called
    /\ ~pure.expectedOutput.null
    /\ pure.expectedOutput.v > 0
    /\ pure.slippageBps.nan \/ pure.slippageBps.v \notin 0..BpsDenominator

\* C15 as stated: calculateMinOutput rejects a tolerance outside [0, 10000]
\* basis points: it gives no minimum output for it, so never a negative one
\* and never one above the expected output.
C15_Original ==
    OutOfRangeCall => pure.ret.throws

\* what the trace tells of the quote's sources
OracleAsked == Logged("call:quoter")

OracleAnswered == Logged("call:quoter") /\ ~Logged("fail:quoter")

PoolRead == Logged("call:pool.slot0") \/ Logged("call:pool.token0")

PoolReadFailed == Logged("fail:pool.slot0") \/ Logged("fail:pool.token0")

\* the order of the sources; nothing raised while quoting has ended the run
SourcesInOrder ==
    /\ OracleAnswered => ~PoolRead /\ ~run.expectedOutput.null
    /\ PoolRead => ~OracleAsked \/ Logged("fail:quoter")
    /\ Precedes("call:quoter", "call:pool.slot0")
    /\ Precedes("call:pool.slot0", "call:pool.token0")
    /\ ~Logged("error:uncaught")
    /\ ~Logged("error:swap-failed")

\* C16 as stated: the oracle's answer is returned without reading the pool;
\* the pool is read only when the oracle is not configured or fails; the
\* quote is null exactly when the oracle is absent or failing and the read
\* of the pool fails; getSwapQuote never raises.
C16_Original ==
    run.quoted /\ run.pc = "minOutput" =>
        /\ SourcesInOrder
        /\ run.expectedOutput.null <=> ~OracleAnswered /\ PoolReadFailed

\* C16, amended: the oracle's answer is returned without reading the pool;
\* the pool is read only when the oracle is not configured or fails;
\* getSwapQuote never raises; the quote is null exactly when the oracle is
\* absent or failing and either a read of the pool fails or the conversion
\* of the approximated amount to a BigInt fails, as it does for a pool whose
\* sqrtPriceX96 is 0 when the input token is not token0.
C16_SourceOrder ==
    run.quoted /\ run.pc = "minOutput" =>
        /\ SourcesInOrder
        /\ run.expectedOutput.null <=>
              ~OracleAnswered /\ (PoolReadFailed \/ Logged("fail:BigInt"))
        /\ PoolReadFailed => ~Logged("fail:BigInt")

C16_Witness ==
    /\ run.quoted
    /\ run.pc = "minOutput"
    /\ Logged("fail:quoter")
    /\ Logged("call:pool.token0")
    /\ Logged("fail:BigInt")
    /\ run.expectedOutput.null

\* a request to the chain node made for the quote has failed
QuoteReadFailed ==
    Logged("fail:quoter") \/ Logged("fail:pool.slot0") \/ Logged("fail:pool.token0")

\* C17 as stated: a failure of a request made to the chain while quoting is
\* reported upward and not turned into an absent quote: no run goes on to
\* submit with minimum output 0 after such a failure.
C17_Original ==
    run.quoted /\ QuoteReadFailed /\ Submitted =>
        ~(run.expectedOutput.null /\ run.minAmountOut = 0)

\* the log lines that open the stages of a run
FloorLogs == {"log:expected-output", "warn:no-slippage-protection"}

EndpointLogs == {"log:private-submission", "log:standard-submission"}

ReportLogs == {"log:completed", "log:bundle-id"}

LoggedIn(S) == \E i \in DOMAIN trace : trace[i] \in S

\* every entry of S comes before every entry of T
AllPrecede(S, T) ==
    \A j \in DOMAIN trace :
        trace[j] \in T => \A i \in j..Len(trace) : trace[i] \notin S

\* C18 as stated: the stages of a run come in the order quote, floor, route
\* selection, execution, report; the route is never selected before the
\* quote has been obtained.
C18_Original ==
    /\ run.enforced => run.quoted
    /\ AllPrecede(QuoteRequests, {"call:getNetwork"})
    /\ AllPrecede({"log:getting-quote"}, FloorLogs)
    /\ AllPrecede(FloorLogs, Submissions)
    /\ AllPrecede(Submissions, ReportLogs)

\* C18, amended: the stages of a run come one after the other in the order
\* route decision (enforcePrivateRPC), quote, floor, choice of the
\* submission endpoint, execution, report; each is entered at most once and
\* only after the one before it: the quote is never requested before the
\* route has been decided, and nothing is submitted before the floor is
\* computed.
C18_StageOrder ==
    /\ run.quoted => run.enforced /\ ~run.refused
    /\ LoggedIn(QuoteRequests) => Logged("log:getting-quote")
    /\ LoggedIn(FloorLogs) => run.quoted
    /\ LoggedIn(EndpointLogs) => LoggedIn(FloorLogs)
    /\ Submitted => LoggedIn(EndpointLogs)
    /\ Logged("call:wait") => Submitted
    /\ LoggedIn(ReportLogs) => Logged("call:wait")
    /\ AllPrecede({"call:getNetwork"}, {"log:getting-quote"})
    /\ AllPrecede({"log:getting-quote"}, QuoteRequests)
    /\ AllPrecede(QuoteRequests, FloorLogs)
    /\ AllPrecede(FloorLogs, EndpointLogs)
    /\ AllPrecede(EndpointLogs, Submissions)
    /\ AllPrecede(Submissions, {"call:wait"})
    /\ AllPrecede({"call:wait"}, ReportLogs)
    /\ Count("call:getNetwork") <= 1
    /\ Count("log:getting-quote") <= 1
    /\ Cardinality({ i \in DOMAIN trace : trace[i] \in FloorLogs }) <= 1
    /\ Cardinality({ i \in DOMAIN trace : trace[i] \in EndpointLogs }) <= 1
    /\ Count("call:wait") <= 1
    /\ Count("log:completed") <= 1

C18_Witness ==
    /\ run.pc = "exit"
    /\ run.enforced
    /\ run.quoted
    /\ Logged("call:quoter")
    /\ Logged("log:expected-output")
    /\ Logged("submit:private")
    /\ Logged("log:completed")
    /\ run.record = "found"

\* C19 as stated, for the submissions through the private relay: a run
\* submits through it only when its route decision is Private and the
\* private-routing flag is on; a run whose decision is the standard route,
\* or whose flag is off, never does.
C19_Original ==
    Logged("submit:private") => run.isPrivate /\ cfg.usePrivateRpc

\* C20: a run whose submission has been confirmed and whose receipt holds
\* no record that parses as SwapBundled ends as a success: the completion is
\* logged, no failure is, and only the bundle id is left out of the report,
\* which is otherwise that of a run whose record is found.  A confirmed run
\* is reported as failed only when a balance read after the confirmation
\* raises, before the receipt is searched.
C20_RecordIsInformational ==
    run.pc = "exit" /\ Logged("log:confirmed") =>
        /\ run.exitCode = 0
        /\ run.record = "missing" =>
              /\ Logged("log:completed")
              /\ ~Logged("error:swap-failed")
              /\ ~Logged("log:bundle-id")
        /\ run.record = "found" =>
              /\ Logged("log:completed")
              /\ ~Logged("error:swap-failed")
              /\ Logged("log:bundle-id")
        /\ Logged("error:swap-failed") =>
              /\ run.record = "unread"
              /\ Logged("fail:usdc.balanceOf") \/ Logged("fail:getBalance")

C20_Witness ==
    /\ run.pc = "exit"
    /\ Logged("log:confirmed")
    /\ run.receipt # << >>
    /\ run.record = "missing"
    /\ Logged("log:completed")
    /\ run.exitCode = 0

(***************************************************************************)
(* Properties of the bundler's own balances.                               *)
(***************************************************************************)
\* the value handed to the router over the invocations of a call
RECURSIVE SumValues(_)
SumValues(calls) ==
    IF calls = << >> THEN 0 ELSE Head(calls).value + SumValues(Tail(calls))

SwapCalls == {"bundleSwap", "bundleSwaps", "bundleSwapWithObfuscation"}

\* C21: a successful bundleSwap, bundleSwaps or bundleSwapWithObfuscation
\* leaves the bundler's native balance as it found it, whatever that was:
\* the value supplied is the value handed to the router plus the value
\* refunded to the submitter, who has paid exactly what the router got.
C21_NoValueRetained ==
    last.fn \in SwapCalls /\ Succeeded =>
        /\ ethBal[BUNDLER] = last.pre.eth[BUNDLER]
        /\ last.value = SumValues(last.out.routerCalls) + last.out.refund
        /\ ethBal[ROUTER] = last.pre.eth[ROUTER] + SumValues(last.out.routerCalls)
        /\ ethBal[last.sender] =
              last.pre.eth[last.sender] - SumValues(last.out.routerCalls)

C21_Witness ==
    /\ IsCall("bundleSwaps")
    /\ Succeeded
    /\ Len(last.swaps) = 2
    /\ last.out.refund > 0
    /\ last.pre.eth[BUNDLER] > 0
    /\ ethBal[BUNDLER] = last.pre.eth[BUNDLER]

\* the bundler's balance of the asset named in the recorded withdraw, before
\* the call
WithdrawnBefore ==
    IF last.token = ZERO THEN last.pre.eth[BUNDLER] ELSE last.pre.tok[last.token][BUNDLER]

\* the recorded withdraw has moved the whole balance of the named asset to
\* the recipient and nothing else
MovedAllTo(to) ==
    IF last.token = ZERO
       THEN /\ ethBal = MoveEth(last.pre.eth, BUNDLER, to, WithdrawnBefore)
            /\ ethBal[BUNDLER] = 0
            /\ tokBal = last.pre.tok
       ELSE /\ tokBal = MoveTok(last.pre.tok, last.token, BUNDLER, to, WithdrawnBefore)
            /\ tokBal[last.token][BUNDLER] = 0
            /\ ethBal = last.pre.eth

NothingMoved == ethBal = last.pre.eth /\ tokBal = last.pre.tok

InvalidRecipient ==
    /\ last.out.status = "revert"
    /\ last.out.reason = "Invalid recipient"
    /\ NothingMoved

\* C22 as stated: for any caller and any non-zero recipient, withdraw moves
\* the bundler's whole balance of the named asset to the recipient, leaving
\* that balance 0 and the other assets untouched; for the zero recipient it
\* fails with 'Invalid recipient' and changes no balance.
C22_Original ==
    IsCall("withdraw") =>
        IF last.to = ZERO THEN InvalidRecipient
        ELSE Succeeded /\ MovedAllTo(last.to)

\* C22, amended: withdraw has no caller restriction.  For the zero recipient
\* it fails with 'Invalid recipient'.  For a recipient other than the
\* bundler, the call either succeeds, moving the bundler's whole balance of
\* the named asset to the recipient, leaving that balance 0 and the other
\* assets untouched, or, for native value that the recipient does not
\* accept, reverts.  For the bundler itself as recipient the call succeeds
\* and every balance stays as it was.  A failed call changes no balance.
C22_WithdrawAll ==
    IsCall("withdraw") =>
        /\ last.to = ZERO => InvalidRecipient
        /\ last.to \notin {ZERO, BUNDLER} /\ Succeeded => MovedAllTo(last.to)
        /\ last.to \notin {ZERO, BUNDLER} /\ ~Succeeded =>
              /\ last.token = ZERO
              /\ last.out.reason = "transfer failed"
        /\ last.to = BUNDLER =>
              /\ Succeeded
              /\ NothingMoved
        /\ ~Succeeded => NothingMoved

C22_Witness ==
    /\ IsCall("withdraw")
    /\ Succeeded
    /\ last.sender = U2
    /\ last.to = U2
    /\ last.token = USDC
    /\ WithdrawnBefore = MaxTok
    /\ tokBal[USDC][U2] = MaxTok
    /\ tokBal[USDC][BUNDLER] = 0
    /\ last.pre.eth[BUNDLER] > 0
    /\ ethBal = last.pre.eth

====
